---- MODULE Spec2Model ----
(***************************************************************************)
(* Payment-triggered account provisioning pipeline of modelweb-backend:    *)
(* ApplicationService (webhook processing, account provisioning,           *)
(* compensation, subscription synchronisation) over the Prisma store.      *)
(*                                                                         *)
(* Store model: rows written inside prisma.$transaction are buffered per   *)
(* handler (txn) and become visible at commit; reads see committed rows    *)
(* (read committed); unique indexes are enforced at write time; a write    *)
(* that collides with an uncommitted row of another transaction waits.     *)
(***************************************************************************)
EXTENDS Integers, Sequences, FiniteSets, TLC

\* ------------------------------------------------------------------ bounds
NumWorkers == 2
NumSessions == 1
MaxDeliveries == 2
MaxOtherEvents == 1
MaxTicks == 1
MaxCheckouts == 1
CalendarYears == 2

\* reference of an earlier checkout that was provisioned for user 1
EarlierApp == 0

Workers == 1..NumWorkers
Sessions == 1..NumSessions
Emails == {"e1", "e2"}

VARIABLES
  \* committed database rows
  applications,   \* session reference -> applications row
  users,          \* rows of table users
  profiles,       \* userId of every profiles row
  billings,       \* rows of table billing
  tenants,        \* number of tenants rows
  drafts,         \* applications rows as createCheckoutSession created them, and
                  \* the Stripe session since attached to each (0: stripeSessionId null)
  \* one in-flight webhook request per worker
  pc,             \* position of the handler
  sess,           \* session of the event being handled
  txn,            \* uncommitted rows of the handler's $transaction
  result,         \* value returned by processPaymentAndCreateUser
  err,            \* error caught by handleCheckoutSessionCompleted
  comp,           \* what this run of handleFailedCheckout did
  resp,           \* HTTP outcome of handleStripeWebhook
  req,            \* the request: event type and whether its signature verifies
  sync,           \* payload, billing read and update data of a subscription handler
  \* external collaborators
  refundCalls,    \* session -> number of stripe.refunds.create calls
  outbox,         \* session -> welcome e-mails delivered, and which other kinds were
  today,          \* the current date, new Date()
  \* observation
  deliveries,     \* number of webhook requests received so far
  quota,          \* events the environment may still deliver, per class
  completed,      \* session -> a verified checkout_completed has been acknowledged
  faulted,        \* session -> an infrastructure fault hit one of its deliveries
  firstOutcome,   \* session -> first successful outcome of the provisioner
  lastEv,         \* billing -> the last two writers of the row, oldest first
  hist,           \* billing -> the last write of the row: its operation and the row before it
  log,            \* session -> the application log holds a plain-text password
  calc            \* arguments and value of the last call of a pure function

dbVars == <<applications, users, profiles, billings, tenants, drafts>>
reqVars == <<pc, sess, txn, result, err, comp, resp, req, sync>>
extVars == <<refundCalls, outbox, today>>
obsVars == <<deliveries, quota, completed, faulted, firstOutcome, lastEv>>
auxVars == <<calc, log, hist>>
vars == <<dbVars, reqVars, extVars, obsVars, auxVars>>

\* ------------------------------------------------------------------- dates
NoDate == [y |-> 0, m |-> 0, d |-> 0]

IsLeap(y) == (y % 4 = 0 /\ y % 100 # 0) \/ y % 400 = 0

DaysInMonth(y, m) ==
  IF m = 2 THEN (IF IsLeap(y) THEN 29 ELSE 28)
  ELSE IF m \in {4, 6, 9, 11} THEN 30 ELSE 31

\* new Date(year, monthIndex, day): out-of-range month and day roll over
RECURSIVE JsDate(_, _, _)
JsDate(y, m, d) ==
  IF m > 12 THEN JsDate(y + 1, m - 12, d)
  ELSE IF d > DaysInMonth(y, m) THEN JsDate(y, m + 1, d - DaysInMonth(y, m))
  ELSE [y |-> y, m |-> m, d |-> d]

\* Date.prototype.setDate(0): the last day of the previous month
SetDateZero(dt) ==
  IF dt.m = 1 THEN [y |-> dt.y - 1, m |-> 12, d |-> 31]
  ELSE [y |-> dt.y, m |-> dt.m - 1, d |-> DaysInMonth(dt.y, dt.m - 1)]

calculateNextBillingDate(now, billingDay, isAnnual) ==
  IF isAnnual
  THEN JsDate(now.y + 1, now.m, billingDay)
  ELSE LET nextDate == JsDate(now.y, now.m + 1, billingDay)
       IN  IF nextDate.d # billingDay THEN SetDateZero(nextDate) ELSE nextDate

\* a < b for two Date values
DateBefore(a, b) ==
  \/ a.y < b.y
  \/ a.y = b.y /\ a.m < b.m
  \/ a.y = b.y /\ a.m = b.m /\ a.d < b.d

\* ------------------------------------------------------------------ pricing
\* amounts in pounds are held in ten-thousandths of a pound; every literal of
\* the code has two decimals and every sum below is far below 2^53, so the
\* double sums of the code are the nearest doubles of the exact sums
SETUP_FEE == 600000
MONTHLY_PRICE == 249900
ANNUAL_PRICE == 2398800
CUSTOM_DESIGN_FEE == 990000

\* Math.round(pounds * 100): an amount in pounds as pence
MinorUnits(pounds) == (pounds + 50) \div 100

\* BillingService.calculatePricing
calculatePricingWithoutDesign(billingType, includeCustomDesign) ==
  LET recurringAmount == IF billingType = "monthly" THEN MONTHLY_PRICE ELSE ANNUAL_PRICE
  IN  [setupFee |-> SETUP_FEE, customDesignFee |-> 0,
       recurringAmount |-> recurringAmount,
       initialAmount |-> SETUP_FEE + recurringAmount]

calculatePricing(billingType, includeCustomDesign) ==
  LET setupFee == SETUP_FEE
      customDesignFee == IF includeCustomDesign THEN CUSTOM_DESIGN_FEE ELSE 0
      recurringAmount == IF billingType = "monthly" THEN MONTHLY_PRICE ELSE ANNUAL_PRICE
  IN  [setupFee |-> setupFee, customDesignFee |-> customDesignFee,
       recurringAmount |-> recurringAmount,
       initialAmount |-> setupFee + recurringAmount + customDesignFee]

\* createCheckoutSession: unit_amount of every line item, in pence
lineItems(paymentPlan, customDesign) ==
  <<6000>> \o (IF customDesign THEN <<9900>> ELSE <<>>)
          \o (IF paymentPlan = "monthly" THEN <<2499>> ELSE <<23988>>)

RECURSIVE SumSeq(_)
SumSeq(q) == IF q = <<>> THEN 0 ELSE Head(q) + SumSeq(Tail(q))

\* amount_total of the Stripe session: the sum of the line items
AmountTotal(paymentPlan, customDesign) == SumSeq(lineItems(paymentPlan, customDesign))

\* processPaymentAndCreateUser: the pricing breakdown stored on the Billing
BillingAmounts(paymentPlan, customDesign) ==
  LET setupFee == 600000
      customDesignFee == IF customDesign THEN 990000 ELSE 0
      recurringAmount == IF paymentPlan = "annual" THEN 2398800 ELSE 249900
  IN  [setupFee |-> setupFee, customDesignFee |-> customDesignFee,
       recurringAmount |-> recurringAmount,
       initialAmount |-> setupFee + recurringAmount + customDesignFee]

\* ------------------------------------------------------------- value shapes
NoUser == 0

EmptyTxn == [tenant |-> FALSE, user |-> NoUser, profile |-> FALSE, billing |-> FALSE]

NoResult ==
  [success |-> FALSE, alreadyProcessed |-> FALSE, userExists |-> FALSE,
   userId |-> NoUser, email |-> "undefined", tempPassword |-> "null"]

\* no error caught; of a caught error: its message, the User row its
\* transaction had created, and what the catch block finds when the
\* Compensation Handler is called (refunds requested so far, no other run)
NoErr == [msg |-> "none", afterUser |-> NoUser, refundsBefore |-> 0, alone |-> FALSE]

NoComp ==
  [ran |-> FALSE, alreadyRefunded |-> FALSE, refundCalled |-> FALSE,
   refundIssued |-> FALSE, alert |-> "none", alertSent |-> FALSE]

NoReq == [type |-> "checkout.session.completed", sigOK |-> TRUE]

\* no billing row: findUnique returned null
NoBilling ==
  [userId |-> NoUser, applicationId |-> 0, stripeSubscriptionId |-> 0,
   billingType |-> "none", billingDay |-> 0, nextBillingDate |-> NoDate,
   status |-> "none", cancelledAt |-> NoDate,
   setupFee |-> 0, customDesignFee |-> 0, recurringAmount |-> 0, initialAmount |-> 0]

\* locals of a handler that reads a billing row and then updates it: the
\* payload, the row read ("billing"), the time of the read and the update data
NoSync ==
  [sub |-> 0, cancelAtPeriodEnd |-> FALSE, subStatus |-> "none", key |-> 0,
   status |-> "none", setCancelledAt |-> FALSE, cancelledAt |-> NoDate,
   setNextBillingDate |-> FALSE, nextBillingDate |-> NoDate,
   seen |-> NoBilling, now |-> NoDate, hasAccess |-> "none"]

\* descriptor of an operation on a billing row
NoOp == [type |-> "none", flag |-> FALSE, st |-> "none", now |-> NoDate]

NoHist == [op |-> NoOp, before |-> NoBilling]

NoAmounts ==
  [setupFee |-> 0, customDesignFee |-> 0, recurringAmount |-> 0, initialAmount |-> 0]

NoCalc ==
  [fn |-> "none", now |-> NoDate, billingDay |-> 0, isAnnual |-> FALSE,
   date |-> NoDate, customDesign |-> FALSE, amountTotal |-> 0,
   billing |-> NoAmounts, pricing |-> NoAmounts]

NoMail == [welcome |-> 0, receipt |-> FALSE, refundNotice |-> FALSE, alert |-> FALSE]

\* createCheckoutSession: the applications row as the initiator leaves it
NewApplication(e, plan, design) ==
  [email |-> e, paymentPlan |-> plan, customDesign |-> design,
   status |-> "pending", processed |-> FALSE, userId |-> NoUser,
   tempPassword |-> "null"]

\* ------------------------------------------------------------ store access
HasApp(s) == s \in DOMAIN applications

AppOf(w) == applications[sess[w]]

\* CREATE UNIQUE INDEX: a write whose key is already present is refused
UniqueIndexDropped(hit) == FALSE

UniqueIndex(hit) == hit

\* users_email_key against the committed rows
EmailTaken(e) == UniqueIndex(\E u \in users : u.email = e)

\* an uncommitted users row with the same e-mail in another transaction:
\* the insert waits for that transaction to end
EmailHeld(w, e) ==
  \E v \in Workers \ {w} :
    txn[v].user # NoUser /\ HasApp(sess[v]) /\ applications[sess[v]].email = e

\* applications_userId_key
UserLinked(s, uid) ==
  UniqueIndex(\E t \in DOMAIN applications : t # s /\ applications[t].userId = uid)

\* billing_userId_key, billing_applicationId_key, billing_stripeSubscriptionId_key
BillingTaken(s, uid) ==
  UniqueIndex(\E b \in billings :
                b.applicationId = s \/ b.userId = uid \/ b.stripeSubscriptionId = s)

UsedIds == {u.id : u \in users} \cup {txn[v].user : v \in Workers}

NewId == CHOOSE i \in 1..(Cardinality(UsedIds) + 1) : i \notin UsedIds

\* tx.billing.create of processPaymentAndCreateUser
BillingRow(s, uid) ==
  LET app == applications[s]
      isAnnual == app.paymentPlan = "annual"
      amounts == BillingAmounts(app.paymentPlan, app.customDesign)
  IN  [userId |-> uid, applicationId |-> s, stripeSubscriptionId |-> s,
       billingType |-> app.paymentPlan, billingDay |-> today.d,
       nextBillingDate |-> calculateNextBillingDate(today, today.d, isAnnual),
       status |-> "active", cancelledAt |-> NoDate,
       setupFee |-> amounts.setupFee, customDesignFee |-> amounts.customDesignFee,
       recurringAmount |-> amounts.recurringAmount,
       initialAmount |-> amounts.initialAmount]

\* rows a failed $transaction callback leaves behind
RolledBackPartial(t) == t

RolledBack(t) == EmptyTxn

\* the rows of transaction buffer t become committed rows
CommitRows(s, t) ==
  /\ users' = IF t.user # NoUser
              THEN users \cup {[id |-> t.user, email |-> applications[s].email,
                                createdBy |-> s]}
              ELSE users
  /\ profiles' = IF t.profile THEN profiles \cup {t.user} ELSE profiles
  /\ billings' = IF t.billing THEN billings \cup {BillingRow(s, t.user)} ELSE billings
  /\ tenants' = IF t.tenant THEN tenants + 1 ELSE tenants
  /\ UNCHANGED drafts

\* --------------------------------------------------------- webhook boundary
SyncTypes ==
  {"customer.subscription.updated", "customer.subscription.deleted",
   "invoice.payment_succeeded", "invoice.payment_failed"}

EventTypes == {"checkout.session.completed", "charge.succeeded"} \cup SyncTypes

ClassOf(type) == IF type = "checkout.session.completed" THEN "checkout" ELSE "other"

\* the switch of handleStripeWebhook
Route(type) ==
  IF type = "checkout.session.completed" THEN "pp_find"
  ELSE IF type \in SyncTypes THEN "sub_find"
  ELSE "unhandled"

TxPcs == {"pp_find", "pp_user", "pp_create", "pp_profile", "pp_billing", "pp_mark"}

\* stripe.webhooks.constructEvent: throws unless the signature verifies
constructEventUnchecked(sigOK) == TRUE

constructEvent(sigOK) == sigOK

\* handleStripeWebhook returns { received: true }
Ack(w) ==
  /\ pc' = [pc EXCEPT ![w] = "ret"]
  /\ resp' = [resp EXCEPT ![w] = "ack"]
  /\ completed' = IF req[w].type = "checkout.session.completed"
                  THEN [completed EXCEPT ![sess[w]] = TRUE]
                  ELSE completed

\* handleStripeWebhook throws
Reject(w) ==
  /\ pc' = [pc EXCEPT ![w] = "ret"]
  /\ resp' = [resp EXCEPT ![w] = "error"]
  /\ UNCHANGED completed

\* handleStripeWebhook: verify the signature, route by event type
handleStripeWebhook(w) ==
  /\ pc[w] = "idle"
  /\ deliveries < MaxDeliveries
  /\ \E s \in Sessions, sigOK \in BOOLEAN, type \in EventTypes :
       /\ quota[ClassOf(type)] > 0
       /\ quota' = [quota EXCEPT ![ClassOf(type)] = @ - 1]
       /\ sess' = [sess EXCEPT ![w] = s]
       /\ req' = [req EXCEPT ![w] = [type |-> type, sigOK |-> sigOK]]
       /\ IF constructEvent(sigOK)
          THEN /\ pc' = [pc EXCEPT ![w] = Route(type)]
               /\ resp' = [resp EXCEPT ![w] = "pending"]
          ELSE /\ pc' = [pc EXCEPT ![w] = "ret"]
               /\ resp' = [resp EXCEPT ![w] = "error"]
  /\ deliveries' = deliveries + 1
  /\ UNCHANGED <<dbVars, txn, result, err, comp, extVars, completed, faulted, firstOutcome>>
  /\ UNCHANGED <<sync, lastEv>>
  /\ UNCHANGED auxVars

\* the response has been sent: the request's locals are gone
respond(w) ==
  /\ pc[w] = "ret"
  /\ pc' = [pc EXCEPT ![w] = "idle"]
  /\ sess' = [sess EXCEPT ![w] = 1]
  /\ txn' = [txn EXCEPT ![w] = EmptyTxn]
  /\ result' = [result EXCEPT ![w] = NoResult]
  /\ err' = [err EXCEPT ![w] = NoErr]
  /\ comp' = [comp EXCEPT ![w] = NoComp]
  /\ resp' = [resp EXCEPT ![w] = "pending"]
  /\ req' = [req EXCEPT ![w] = NoReq]
  /\ sync' = [sync EXCEPT ![w] = NoSync]
  /\ UNCHANGED <<dbVars, extVars, obsVars>>
  /\ UNCHANGED auxVars

\* ------------------------------------------- processPaymentAndCreateUser
\* positions of a run of handleFailedCheckout
CompPcs == {"hcc_catch", "fc_refund", "fc_update"}

\* catch (error) of handleCheckoutSessionCompleted: the error, as
\* handleFailedCheckout is about to be called with it
Caught(w, msg, afterUser) ==
  [msg |-> msg, afterUser |-> afterUser,
   refundsBefore |-> refundCalls[sess[w]],
   alone |-> \A v \in Workers \ {w} : ~(sess[v] = sess[w] /\ pc[v] \in CompPcs)]

\* the $transaction callback throws: roll back, wrap the error, rethrow to
\* the catch of handleCheckoutSessionCompleted, or to the catch of
\* verifyPayment, which rethrows to the controller
Throw(w, msg) ==
  /\ CommitRows(sess[w], RolledBack(txn[w]))
  /\ err' = [err EXCEPT ![w] = Caught(w, msg, txn[w].user)]
  /\ txn' = [txn EXCEPT ![w] = EmptyTxn]
  /\ IF req[w].type = "verify.payment"
     THEN /\ pc' = [pc EXCEPT ![w] = "ret"]
          /\ resp' = [resp EXCEPT ![w] = "error"]
     ELSE /\ pc' = [pc EXCEPT ![w] = "hcc_catch"]
          /\ UNCHANGED resp
  /\ UNCHANGED <<applications, result, completed>>

\* result of the idempotent short-circuit
AlreadyProcessedResultWithPassword(app) ==
  [success |-> TRUE, alreadyProcessed |-> TRUE, userExists |-> FALSE,
   userId |-> app.userId, email |-> app.email, tempPassword |-> "plain"]

AlreadyProcessedResult(app) ==
  [success |-> TRUE, alreadyProcessed |-> TRUE, userExists |-> FALSE,
   userId |-> app.userId, email |-> "undefined", tempPassword |-> "null"]

UserExistsResult(uid) ==
  [success |-> TRUE, alreadyProcessed |-> FALSE, userExists |-> TRUE,
   userId |-> uid, email |-> "undefined", tempPassword |-> "null"]

CreatedResult(uid, e) ==
  [success |-> TRUE, alreadyProcessed |-> FALSE, userExists |-> FALSE,
   userId |-> uid, email |-> e, tempPassword |-> "plain"]

\* handleCheckoutSessionCompleted: the test that guards the two e-mails
CredentialsDueOnSuccess(r) == r.success

CredentialsDue(r) ==
  r.success /\ ~r.alreadyProcessed /\ ~r.userExists /\ r.tempPassword # "null"

\* processPaymentAndCreateUser returned r: verifyPayment returns it to the
\* controller, handleCheckoutSessionCompleted sends the e-mails or returns
Returned(w, r) ==
  IF req[w].type # "verify.payment" /\ CredentialsDue(r)
  THEN /\ pc' = [pc EXCEPT ![w] = "hcc_emails"]
       /\ UNCHANGED <<resp, completed>>
  ELSE Ack(w)

RecordOutcome(s, r) ==
  firstOutcome' = IF firstOutcome[s].success THEN firstOutcome
                  ELSE [firstOutcome EXCEPT ![s] = r]

\* steps 1-2: find the application, idempotency check
ppFindApplication(w) ==
  /\ pc[w] = "pp_find"
  /\ IF ~HasApp(sess[w])
     THEN /\ Throw(w, "Application not found")
          /\ UNCHANGED firstOutcome
     ELSE IF AppOf(w).processed
     THEN /\ result' = [result EXCEPT ![w] = AlreadyProcessedResult(AppOf(w))]
          /\ RecordOutcome(sess[w], AlreadyProcessedResult(AppOf(w)))
          /\ Returned(w, AlreadyProcessedResult(AppOf(w)))
          /\ UNCHANGED <<dbVars, txn, err>>
     ELSE /\ pc' = [pc EXCEPT ![w] = "pp_user"]
          /\ UNCHANGED <<dbVars, txn, err, result, resp, completed, firstOutcome>>
  /\ UNCHANGED <<sess, comp, req, extVars, deliveries, quota, faulted>>
  /\ UNCHANGED <<sync, lastEv>>
  /\ UNCHANGED auxVars

\* step 3: a user with the application's e-mail exists -> link it and return
ppFindUser(w) ==
  /\ pc[w] = "pp_user"
  /\ LET s == sess[w]
         found == {u \in users : u.email = applications[s].email}
     IN  IF found # {}
         THEN \E u \in found :
                IF UserLinked(s, u.id)
                THEN /\ Throw(w, "Unique constraint failed")
                     /\ UNCHANGED firstOutcome
                ELSE /\ applications' =
                          [applications EXCEPT ![s].userId = u.id,
                                               ![s].processed = TRUE,
                                               ![s].status = "completed"]
                     /\ result' = [result EXCEPT ![w] = UserExistsResult(u.id)]
                     /\ RecordOutcome(s, UserExistsResult(u.id))
                     /\ Returned(w, UserExistsResult(u.id))
                     /\ UNCHANGED <<users, profiles, billings, tenants, drafts, txn, err>>
         ELSE /\ pc' = [pc EXCEPT ![w] = "pp_create"]
              /\ UNCHANGED <<dbVars, txn, err, result, resp, completed, firstOutcome>>
  /\ UNCHANGED <<sess, comp, req, extVars, deliveries, quota, faulted>>
  /\ UNCHANGED <<sync, lastEv>>
  /\ UNCHANGED auxVars

\* steps 4-5: getDefaultTenant(tx), tx.user.create
ppCreateUser(w) ==
  /\ pc[w] = "pp_create"
  /\ ~EmailHeld(w, AppOf(w).email)
  /\ IF EmailTaken(AppOf(w).email)
     THEN Throw(w, "Unique constraint failed")
     ELSE /\ txn' = [txn EXCEPT ![w].tenant = (tenants = 0), ![w].user = NewId]
          /\ pc' = [pc EXCEPT ![w] = "pp_profile"]
          /\ UNCHANGED <<dbVars, err, result, resp, completed>>
  /\ UNCHANGED <<sess, comp, req, extVars, obsVars>>
  /\ UNCHANGED sync
  /\ UNCHANGED auxVars

\* step 6: tx.profile.create
ppCreateProfile(w) ==
  /\ pc[w] = "pp_profile"
  /\ txn' = [txn EXCEPT ![w].profile = TRUE]
  /\ pc' = [pc EXCEPT ![w] = "pp_billing"]
  /\ UNCHANGED <<dbVars, sess, result, err, comp, resp, req, extVars, obsVars>>
  /\ UNCHANGED sync
  /\ UNCHANGED auxVars

\* steps 7-8: tx.billing.create
ppCreateBilling(w) ==
  /\ pc[w] = "pp_billing"
  /\ IF BillingTaken(sess[w], txn[w].user)
     THEN Throw(w, "Unique constraint failed")
     ELSE /\ txn' = [txn EXCEPT ![w].billing = TRUE]
          /\ pc' = [pc EXCEPT ![w] = "pp_mark"]
          /\ UNCHANGED <<dbVars, err, result, resp, completed>>
  /\ UNCHANGED <<sess, comp, req, extVars, obsVars>>
  /\ UNCHANGED sync
  /\ UNCHANGED auxVars

\* step 9 and commit: mark the application processed, return the credentials
\* to handleCheckoutSessionCompleted, or to verifyPayment, which returns them
ppMarkProcessed(w) ==
  /\ pc[w] = "pp_mark"
  /\ LET s == sess[w]
         r == CreatedResult(txn[w].user, applications[s].email)
     IN  /\ CommitRows(s, txn[w])
         /\ applications' =
              [applications EXCEPT ![s].userId = txn[w].user,
                                   ![s].processed = TRUE,
                                   ![s].status = "completed",
                                   ![s].tempPassword = "hash"]
         /\ result' = [result EXCEPT ![w] = r]
         /\ RecordOutcome(s, r)
         /\ Returned(w, r)
  /\ txn' = [txn EXCEPT ![w] = EmptyTxn]
  /\ UNCHANGED <<sess, err, comp, req, extVars, deliveries, quota, faulted>>
  /\ UNCHANGED <<sync, lastEv>>
  /\ UNCHANGED auxVars

\* a statement of the transaction fails or the 10 s timeout expires
ppFault(w) ==
  /\ pc[w] \in TxPcs
  /\ Throw(w, "fault")
  /\ faulted' = [faulted EXCEPT ![sess[w]] = TRUE]
  /\ UNCHANGED <<sess, comp, req, extVars, deliveries, quota, firstOutcome>>
  /\ UNCHANGED <<sync, lastEv>>
  /\ UNCHANGED auxVars

\* ---------------------------------------------------- createCheckoutSession
\* the applications row of a call whose Stripe request failed: nothing is
\* done to it
AbandonedMarkedFailed(row) == [row EXCEPT !.status = "failed", !.processed = TRUE]

Abandoned(row) == row

\* session ids that Stripe has not given out yet
FreshSessions ==
  {s \in Sessions : ~HasApp(s) /\ \A v \in Workers : ~(pc[v] = "cs_update" /\ sess[v] = s)}

\* POST applications/checkout: prisma.application.create with status pending
createCheckoutSession(w) ==
  /\ pc[w] = "idle"
  /\ Len(drafts) < MaxCheckouts
  /\ req' = [req EXCEPT ![w] = [type |-> "checkout.create", sigOK |-> TRUE]]
  /\ \E e \in Emails, paymentPlan \in {"monthly", "annual"}, customDesign \in BOOLEAN :
       drafts' = Append(drafts, [row |-> NewApplication(e, paymentPlan, customDesign),
                                 session |-> 0])
  /\ sync' = [sync EXCEPT ![w] = [NoSync EXCEPT !.key = Len(drafts) + 1]]
  /\ pc' = [pc EXCEPT ![w] = "cs_stripe"]
  /\ UNCHANGED <<applications, users, profiles, billings, tenants, sess, txn, result,
                 err, comp, resp, extVars, obsVars, auxVars>>

\* stripe.checkout.sessions.create: a throw goes to the caller
csCreateSession(w) ==
  /\ pc[w] = "cs_stripe"
  /\ \/ /\ Reject(w)
        /\ drafts' = [drafts EXCEPT ![sync[w].key].row = Abandoned(@)]
        /\ UNCHANGED sess
     \/ \E s \in FreshSessions :
          /\ sess' = [sess EXCEPT ![w] = s]
          /\ pc' = [pc EXCEPT ![w] = "cs_update"]
          /\ UNCHANGED <<drafts, resp, completed>>
  /\ UNCHANGED <<applications, users, profiles, billings, tenants, txn, result, err,
                 comp, req, sync, extVars, deliveries, quota, faulted, firstOutcome,
                 lastEv, auxVars>>

\* prisma.application.update({ data: { stripeSessionId } }), return the url
csAttachSession(w) ==
  /\ pc[w] = "cs_update"
  /\ \E dbOK \in BOOLEAN :
       IF dbOK
       THEN /\ applications' = applications @@ (sess[w] :> drafts[sync[w].key].row)
            /\ drafts' = [drafts EXCEPT ![sync[w].key].session = sess[w]]
            /\ Ack(w)
       ELSE /\ Reject(w)
            /\ UNCHANGED <<applications, drafts>>
  /\ UNCHANGED <<users, profiles, billings, tenants, sess, txn, result, err, comp,
                 req, sync, extVars, deliveries, quota, faulted, firstOutcome, lastEv,
                 auxVars>>

\* ------------------------------------------------------------ verifyPayment
\* GET applications/verify/:sessionId: retrieve the Stripe session, look the
\* application up, and call the provisioner unless it is already processed
verifyPayment(w) ==
  /\ pc[w] = "idle"
  /\ deliveries < MaxDeliveries
  /\ quota[ClassOf("verify.payment")] > 0
  /\ quota' = [quota EXCEPT ![ClassOf("verify.payment")] = @ - 1]
  /\ deliveries' = deliveries + 1
  /\ \E s \in Sessions, isPaid \in BOOLEAN :
       /\ sess' = [sess EXCEPT ![w] = s]
       /\ req' = [req EXCEPT ![w] = [type |-> "verify.payment", sigOK |-> TRUE]]
       /\ IF ~isPaid \/ ~HasApp(s) \/ applications[s].processed
          THEN /\ pc' = [pc EXCEPT ![w] = "ret"]
               /\ resp' = [resp EXCEPT ![w] = "ack"]
          ELSE /\ pc' = [pc EXCEPT ![w] = "pp_find"]
               /\ resp' = [resp EXCEPT ![w] = "pending"]
  /\ UNCHANGED <<dbVars, txn, result, err, comp, sync, extVars,
                 completed, faulted, firstOutcome, lastEv, auxVars>>

\* ------------------------------------------ handleCheckoutSessionCompleted
Bit(b) == IF b THEN 1 ELSE 0

\* logger.log(`Backup credentials: ${result.email} / ${result.tempPassword}`)
BackupCredentials(r) == r.tempPassword

\* after a successful creation: look the billing up, send receipt and welcome
hccSendEmailsThrowing(w) ==
  /\ pc[w] = "hcc_emails"
  /\ \E receiptOK \in BOOLEAN, welcomeOK \in BOOLEAN :
       LET s == sess[w]
           hasBilling == \E b \in billings : b.applicationId = s
       IN  /\ outbox' = [outbox EXCEPT
                          ![s].receipt = @ \/ (hasBilling /\ receiptOK),
                          ![s].welcome = @ + Bit(welcomeOK)]
           /\ log' = IF welcomeOK THEN log
                     ELSE [log EXCEPT ![s] = BackupCredentials(result[w])]
           /\ IF receiptOK /\ welcomeOK
              THEN Ack(w) /\ UNCHANGED err
              ELSE /\ err' = [err EXCEPT ![w] = Caught(w, "fault", NoUser)]
                   /\ pc' = [pc EXCEPT ![w] = "hcc_catch"]
                   /\ UNCHANGED <<resp, completed>>
  /\ UNCHANGED <<dbVars, sess, txn, result, comp, req, refundCalls, today,
                 deliveries, quota, faulted, firstOutcome>>
  /\ UNCHANGED <<sync, lastEv>>
  /\ UNCHANGED <<calc, hist>>

hccSendEmails(w) ==
  /\ pc[w] = "hcc_emails"
  /\ \E receiptOK \in BOOLEAN, welcomeOK \in BOOLEAN :
       LET s == sess[w]
           hasBilling == \E b \in billings : b.applicationId = s
       IN  /\ outbox' = [outbox EXCEPT
                          ![s].receipt = @ \/ (hasBilling /\ receiptOK),
                          ![s].welcome = @ + Bit(welcomeOK)]
           /\ log' = IF welcomeOK THEN log
                     ELSE [log EXCEPT ![s] = BackupCredentials(result[w])]
  /\ Ack(w)
  /\ UNCHANGED <<dbVars, sess, txn, result, err, comp, req, refundCalls, today,
                 deliveries, quota, faulted, firstOutcome>>
  /\ UNCHANGED <<sync, lastEv>>
  /\ UNCHANGED <<calc, hist>>

\* the application lookup before the e-mails throws: caught by the outer catch
hccLookupFault(w) ==
  /\ pc[w] = "hcc_emails"
  /\ err' = [err EXCEPT ![w] = Caught(w, "fault", NoUser)]
  /\ pc' = [pc EXCEPT ![w] = "hcc_catch"]
  /\ UNCHANGED <<dbVars, sess, txn, result, comp, resp, req, extVars, obsVars>>
  /\ UNCHANGED sync
  /\ UNCHANGED auxVars

\* ---------------------------------------------------- handleFailedCheckout
\* sendCriticalAlert: errors of the mail service are swallowed
sendCriticalAlertThrowing(w, c, ob, info) ==
  \E delivered \in BOOLEAN :
    /\ comp' = [comp EXCEPT ![w] = [c EXCEPT !.alert = info, !.alertSent = delivered]]
    /\ outbox' = [ob EXCEPT ![sess[w]].alert = @ \/ delivered]
    /\ IF delivered THEN Ack(w) ELSE Reject(w)

sendCriticalAlert(w, c, ob, info) ==
  \E delivered \in BOOLEAN :
    /\ comp' = [comp EXCEPT ![w] = [c EXCEPT !.alert = info, !.alertSent = delivered]]
    /\ outbox' = [ob EXCEPT ![sess[w]].alert = @ \/ delivered]
    /\ Ack(w)

\* payment-intent check and already-refunded check
handleFailedCheckout(w) ==
  /\ pc[w] = "hcc_catch"
  /\ \E hasPI \in BOOLEAN, dbOK \in BOOLEAN :
       LET s == sess[w]
           c == [comp[w] EXCEPT !.ran = TRUE]
       IN  IF ~hasPI
           THEN sendCriticalAlert(w, c, outbox, "No payment intent")
           ELSE IF ~dbOK
           THEN sendCriticalAlert(w, c, outbox, "MANUAL REFUND REQUIRED")
           ELSE IF HasApp(s) /\ applications[s].status = "refunded"
           THEN /\ comp' = [comp EXCEPT ![w] = [c EXCEPT !.alreadyRefunded = TRUE]]
                /\ Ack(w)
                /\ UNCHANGED outbox
           ELSE /\ comp' = [comp EXCEPT ![w] = c]
                /\ pc' = [pc EXCEPT ![w] = "fc_refund"]
                /\ UNCHANGED <<outbox, resp, completed>>
  /\ UNCHANGED <<dbVars, sess, txn, result, err, req, refundCalls, today,
                 deliveries, quota, faulted, firstOutcome>>
  /\ UNCHANGED <<sync, lastEv>>
  /\ UNCHANGED auxVars

\* stripe.refunds.create
fcRefund(w) ==
  /\ pc[w] = "fc_refund"
  /\ refundCalls' = [refundCalls EXCEPT ![sess[w]] = @ + 1]
  /\ \E ok \in BOOLEAN :
       LET c == [comp[w] EXCEPT !.refundCalled = TRUE, !.refundIssued = ok]
       IN  IF ok
           THEN /\ comp' = [comp EXCEPT ![w] = c]
                /\ pc' = [pc EXCEPT ![w] = "fc_update"]
                /\ UNCHANGED <<outbox, resp, completed>>
           ELSE sendCriticalAlert(w, c, outbox, "MANUAL REFUND REQUIRED")
  /\ UNCHANGED <<dbVars, sess, txn, result, err, req, today,
                 deliveries, quota, faulted, firstOutcome>>
  /\ UNCHANGED <<sync, lastEv>>
  /\ UNCHANGED auxVars

\* mark the application refunded, notify the customer, alert the operator
fcMarkRefunded(w) ==
  /\ pc[w] = "fc_update"
  /\ \E dbOK \in BOOLEAN, noticeOK \in BOOLEAN :
       LET s == sess[w]
       IN  IF HasApp(s) /\ ~dbOK
           THEN /\ sendCriticalAlert(w, comp[w], outbox, "MANUAL REFUND REQUIRED")
                /\ UNCHANGED applications
           ELSE IF HasApp(s)
           THEN /\ applications' = [applications EXCEPT ![s].status = "refunded"]
                /\ sendCriticalAlert(w, comp[w],
                     [outbox EXCEPT ![s].refundNotice = @ \/ noticeOK],
                     "Refund issued")
           ELSE /\ sendCriticalAlert(w, comp[w], outbox, "Refund issued")
                /\ UNCHANGED applications
  /\ UNCHANGED <<users, profiles, billings, tenants, drafts, sess, txn, result, err, req,
                 refundCalls, today, deliveries, quota, faulted, firstOutcome>>
  /\ UNCHANGED <<sync, lastEv>>
  /\ UNCHANGED auxVars

\* default branch of the switch: log the type, acknowledge
unhandledEventRejected(w) ==
  /\ pc[w] = "unhandled"
  /\ Reject(w)
  /\ UNCHANGED <<dbVars, sess, txn, result, err, comp, req, sync, extVars,
                 deliveries, quota, faulted, firstOutcome, lastEv>>
  /\ UNCHANGED auxVars

unhandledEvent(w) ==
  /\ pc[w] = "unhandled"
  /\ Ack(w)
  /\ UNCHANGED <<dbVars, sess, txn, result, err, comp, req, sync, extVars,
                 deliveries, quota, faulted, firstOutcome, lastEv>>
  /\ UNCHANGED auxVars

\* ------------------------------------------ Subscription State Synchronizer
None == 0 - 1

SubRefs == Sessions \cup {EarlierApp}

SubStatuses == {"active", "past_due", "canceled", "unpaid", "trialing"}

\* prisma.billing.findUnique({ where: { stripeSubscriptionId } })
BillingBySub(sub) == {b \in billings : b.stripeSubscriptionId = sub}

\* handleSubscriptionUpdated: status and cancelledAt written for billing b
SubscriptionUpdatedDataOverwriting(b, flag, st, now) ==
  IF flag
  THEN [status |-> "cancelled", cancelledAt |-> now]
  ELSE IF st = "past_due"
  THEN [status |-> "past_due", cancelledAt |-> b.cancelledAt]
  ELSE IF st \in {"canceled", "unpaid"}
  THEN [status |-> "cancelled", cancelledAt |-> now]
  ELSE IF st = "active"
  THEN [status |-> "active", cancelledAt |-> NoDate]
  ELSE [status |-> "active", cancelledAt |-> b.cancelledAt]

SubscriptionUpdatedData(b, flag, st, now) ==
  IF flag
  THEN [status |-> "cancelled",
        cancelledAt |-> IF b.cancelledAt # NoDate THEN b.cancelledAt ELSE now]
  ELSE IF st = "past_due"
  THEN [status |-> "past_due", cancelledAt |-> b.cancelledAt]
  ELSE IF st \in {"canceled", "unpaid"}
  THEN [status |-> "cancelled", cancelledAt |-> now]
  ELSE IF st = "active"
  THEN [status |-> "active", cancelledAt |-> NoDate]
  ELSE [status |-> "active", cancelledAt |-> b.cancelledAt]

\* handleInvoicePaymentSucceeded: the fields written for billing b
InvoicePaidDataDateOnly(b, now) ==
  [status |-> b.status,
   nextBillingDate |-> IF b.billingDay # 0
                       THEN calculateNextBillingDate(now, b.billingDay, FALSE)
                       ELSE NoDate]

InvoicePaidData(b, now) ==
  [status |-> "active",
   nextBillingDate |-> IF b.billingDay # 0
                       THEN calculateNextBillingDate(now, b.billingDay, FALSE)
                       ELSE NoDate]

\* the handler's findUnique and the update data it derives from the row read
SyncRead(type, b, flag, st, now) ==
  LET base == [NoSync EXCEPT !.sub = b.stripeSubscriptionId, !.key = b.applicationId,
                             !.seen = b, !.now = now]
  IN  IF type = "customer.subscription.updated"
      THEN LET d == SubscriptionUpdatedData(b, flag, st, now)
           IN  [base EXCEPT !.cancelAtPeriodEnd = flag, !.subStatus = st,
                            !.status = d.status,
                            !.setCancelledAt = TRUE, !.cancelledAt = d.cancelledAt]
      ELSE IF type = "customer.subscription.deleted"
      THEN [base EXCEPT !.status = "cancelled",
                        !.setCancelledAt = TRUE, !.cancelledAt = now]
      ELSE IF type = "invoice.payment_succeeded"
      THEN LET d == InvoicePaidData(b, now)
           IN  [base EXCEPT !.status = d.status,
                            !.setNextBillingDate = TRUE,
                            !.nextBillingDate = d.nextBillingDate]
      ELSE [base EXCEPT !.status = "past_due"]

\* prisma.billing.update({ where: { id }, data }): only the given fields change
BillingUpdateStatusOnly(b, d) ==
  [b EXCEPT !.status = d.status,
            !.nextBillingDate = IF d.setNextBillingDate THEN d.nextBillingDate ELSE @]

BillingUpdate(b, d) ==
  [b EXCEPT !.status = d.status,
            !.cancelledAt = IF d.setCancelledAt THEN d.cancelledAt ELSE @,
            !.nextBillingDate = IF d.setNextBillingDate THEN d.nextBillingDate ELSE @]

Last2(q) == IF Len(q) > 2 THEN SubSeq(q, Len(q) - 1, Len(q)) ELSE q

\* the billing row of application k as it is now
RowOf(k) ==
  IF \E b \in billings : b.applicationId = k
  THEN CHOOSE b \in billings : b.applicationId = k
  ELSE NoBilling

\* the operation handler w is running: event type, payload, time of its read
OpOf(w) ==
  [type |-> req[w].type, flag |-> sync[w].cancelAtPeriodEnd,
   st |-> sync[w].subStatus, now |-> sync[w].now]

\* first half of the four handlers: read the event, look the billing up
syncFind(w) ==
  /\ pc[w] = "sub_find"
  /\ \E sub \in SubRefs \cup {None} :
       IF BillingBySub(sub) = {}
       THEN /\ Ack(w)
            /\ UNCHANGED sync
       ELSE \E b \in BillingBySub(sub), flag \in BOOLEAN, st \in SubStatuses :
              /\ req[w].type # "customer.subscription.updated"
                   => (~flag /\ st = "active")
              /\ sync' = [sync EXCEPT ![w] = SyncRead(req[w].type, b, flag, st, today)]
              /\ pc' = [pc EXCEPT ![w] = "sub_write"]
              /\ UNCHANGED <<resp, completed>>
  /\ UNCHANGED <<dbVars, sess, txn, result, err, comp, req, extVars,
                 deliveries, quota, faulted, firstOutcome, lastEv>>
  /\ UNCHANGED auxVars

\* second half: prisma.billing.update with the data derived from the read
syncWrite(w) ==
  /\ pc[w] = "sub_write"
  /\ billings' = {IF b.applicationId = sync[w].key THEN BillingUpdate(b, sync[w]) ELSE b :
                    b \in billings}
  /\ lastEv' = [lastEv EXCEPT ![sync[w].key] = Last2(Append(@, req[w].type))]
  /\ hist' = [hist EXCEPT ![sync[w].key] =
                [op |-> OpOf(w), before |-> RowOf(sync[w].key)]]
  /\ Ack(w)
  /\ UNCHANGED <<applications, users, profiles, tenants, drafts, sess, txn, result, err,
                 comp, req, sync, extVars, deliveries, quota, faulted, firstOutcome>>
  /\ UNCHANGED <<calc, log>>

\* a database call of the handler throws: caught and logged by the handler
syncFault(w) ==
  /\ pc[w] \in {"sub_find", "sub_write"}
  /\ err' = [err EXCEPT ![w] = [NoErr EXCEPT !.msg = "fault"]]
  /\ Ack(w)
  /\ UNCHANGED <<dbVars, sess, txn, result, comp, req, sync, extVars,
                 deliveries, quota, faulted, firstOutcome, lastEv>>
  /\ UNCHANGED auxVars

\* ------------------------------------------------------------ BillingService
\* prisma.billing.findUnique({ where: { userId } })
BillingByUser(uid) == {b \in billings : b.userId = uid}

\* update data of cancelSubscription and of reactivateSubscription
CancelData(now) ==
  [NoSync EXCEPT !.status = "cancelled", !.setCancelledAt = TRUE, !.cancelledAt = now]

ReactivateData ==
  [NoSync EXCEPT !.status = "active", !.setCancelledAt = TRUE, !.cancelledAt = NoDate]

\* an authenticated request enters a BillingService or AuthService method
UserRequest(w, type) ==
  /\ pc[w] = "idle"
  /\ deliveries < MaxDeliveries
  /\ deliveries' = deliveries + 1
  /\ req' = [req EXCEPT ![w] = [type |-> type, sigOK |-> TRUE]]

\* first half of cancelSubscription / reactivateSubscription: find the
\* billing, refuse when it is missing or when it is not in the state the
\* method works on (cancelled for reactivate, anything else for cancel)
UserRead(w, uid, cancelled) ==
  IF BillingByUser(uid) = {}
  THEN /\ Reject(w)
       /\ UNCHANGED sync
  ELSE \E b \in BillingByUser(uid) :
         IF (b.status = "cancelled") # cancelled
         THEN /\ Reject(w)
              /\ UNCHANGED sync
         ELSE /\ sync' = [sync EXCEPT ![w] =
                           [NoSync EXCEPT !.sub = b.stripeSubscriptionId,
                                          !.key = b.applicationId,
                                          !.seen = b, !.now = today]]
              /\ pc' = [pc EXCEPT ![w] = "user_write"]
              /\ UNCHANGED <<resp, completed>>

cancelSubscription(w) ==
  /\ UserRequest(w, "user.cancel")
  /\ \E uid \in Sessions : UserRead(w, uid, FALSE)
  /\ UNCHANGED <<dbVars, sess, txn, result, err, comp, extVars,
                 quota, faulted, firstOutcome, lastEv, auxVars>>

reactivateSubscription(w) ==
  /\ UserRequest(w, "user.reactivate")
  /\ \E uid \in Sessions : UserRead(w, uid, TRUE)
  /\ UNCHANGED <<dbVars, sess, txn, result, err, comp, extVars,
                 quota, faulted, firstOutcome, lastEv, auxVars>>

\* second half of both: stripe.subscriptions.update, then
\* prisma.billing.update({ where: { userId }, data })
userUpdate(w) ==
  /\ pc[w] = "user_write"
  /\ \E stripeOK \in BOOLEAN :
       LET uid == sync[w].seen.userId
           data == IF req[w].type = "user.cancel" THEN CancelData(today)
                   ELSE ReactivateData
       IN  IF ~stripeOK \/ BillingByUser(uid) = {}
           THEN /\ Reject(w)
                /\ UNCHANGED <<billings, lastEv, hist>>
           ELSE /\ billings' = {IF b.userId = uid THEN BillingUpdate(b, data) ELSE b :
                                  b \in billings}
                /\ lastEv' = [lastEv EXCEPT ![sync[w].key] = Last2(Append(@, req[w].type))]
                /\ hist' = [hist EXCEPT ![sync[w].key] =
                              [op |-> [NoOp EXCEPT !.type = req[w].type, !.now = today],
                               before |-> RowOf(sync[w].key)]]
                /\ Ack(w)
  /\ UNCHANGED <<applications, users, profiles, tenants, drafts, sess, txn, result, err,
                 comp, req, sync, extVars, deliveries, quota, faulted, firstOutcome,
                 calc, log>>

\* getSubscriptionStatus: hasAccess as the || / && chain of the code yields it
hasAccessWhileCancelled(billing, now) ==
  IF billing.status \in {"active", "cancelled"} THEN "true" ELSE "false"

hasAccess(billing, now) ==
  IF billing.status = "active" THEN "true"
  ELSE IF billing.status # "cancelled" THEN "false"
  ELSE IF billing.nextBillingDate = NoDate THEN "null"
  ELSE IF DateBefore(now, billing.nextBillingDate) THEN "true"
  ELSE "false"

getSubscriptionStatus(w) ==
  /\ UserRequest(w, "user.status")
  /\ \E uid \in Sessions :
       IF BillingByUser(uid) = {}
       THEN sync' = [sync EXCEPT ![w] = [NoSync EXCEPT !.now = today]]
       ELSE \E b \in BillingByUser(uid) :
              sync' = [sync EXCEPT ![w] =
                        [NoSync EXCEPT !.key = b.applicationId, !.seen = b,
                                       !.now = today,
                                       !.status = b.status,
                                       !.hasAccess = hasAccess(b, today)]]
  /\ Ack(w)
  /\ UNCHANGED <<dbVars, sess, txn, result, err, comp, extVars,
                 quota, faulted, firstOutcome, lastEv, auxVars>>

\* AuthService.deleteAccount / AdminService.deleteUser: prisma.user.delete
\* with the foreign keys of the schema (profiles and billing ON DELETE
\* CASCADE, applications.userId ON DELETE SET NULL)
deleteAccount(w) ==
  /\ UserRequest(w, "user.delete")
  /\ \E uid \in Sessions :
       IF \A u \in users : u.id # uid
       THEN /\ Reject(w)
            /\ UNCHANGED dbVars
       ELSE /\ users' = {u \in users : u.id # uid}
            /\ profiles' = profiles \ {uid}
            /\ billings' = {b \in billings : b.userId # uid}
            /\ applications' =
                 [a \in DOMAIN applications |->
                    IF applications[a].userId = uid
                    THEN [applications[a] EXCEPT !.userId = NoUser]
                    ELSE applications[a]]
            /\ Ack(w)
            /\ UNCHANGED <<tenants, drafts>>
  /\ UNCHANGED <<sess, txn, result, err, comp, sync, extVars,
                 quota, faulted, firstOutcome, lastEv, auxVars>>

\* ---------------------------------------------------------- specification
Today0 == [y |-> 2025, m |-> 1, d |-> 31]

PlanOf(s) == IF s % 2 = 1 THEN "monthly" ELSE "annual"

EarlierApplication ==
  [email |-> "e1", paymentPlan |-> "monthly", customDesign |-> FALSE,
   status |-> "completed", processed |-> TRUE, userId |-> 1,
   tempPassword |-> "hash"]

EarlierBilling ==
  [userId |-> 1, applicationId |-> EarlierApp, stripeSubscriptionId |-> EarlierApp,
   billingType |-> "monthly", billingDay |-> 15,
   nextBillingDate |-> [y |-> 2025, m |-> 2, d |-> 15],
   status |-> "active", cancelledAt |-> NoDate,
   setupFee |-> BillingAmounts("monthly", FALSE).setupFee,
   customDesignFee |-> BillingAmounts("monthly", FALSE).customDesignFee,
   recurringAmount |-> BillingAmounts("monthly", FALSE).recurringAmount,
   initialAmount |-> BillingAmounts("monthly", FALSE).initialAmount]

\* "e1" is unregistered, registered by hand, or the account of EarlierApp
Init ==
  /\ \E present \in {Sessions, Sessions \ {NumSessions}}, e1 \in {"none", "manual", "provisioned"} :
       \E mail \in [present -> Emails] :
         /\ \A s \in present : s = 1 => mail[s] = "e1"
         /\ applications =
              [a \in present \cup (IF e1 = "provisioned" THEN {EarlierApp} ELSE {}) |->
                 IF a = EarlierApp THEN EarlierApplication
                 ELSE NewApplication(mail[a], PlanOf(a), a > 1)]
         /\ users = IF e1 = "none" THEN {}
                    ELSE {[id |-> 1, email |-> "e1", createdBy |-> EarlierApp]}
         /\ tenants = IF e1 = "none" THEN 0 ELSE 1
         /\ profiles = IF e1 = "provisioned" THEN {1} ELSE {}
         /\ billings = IF e1 = "provisioned" THEN {EarlierBilling} ELSE {}
  /\ drafts = <<>>
  /\ pc = [w \in Workers |-> "idle"]
  /\ sess = [w \in Workers |-> 1]
  /\ txn = [w \in Workers |-> EmptyTxn]
  /\ result = [w \in Workers |-> NoResult]
  /\ err = [w \in Workers |-> NoErr]
  /\ comp = [w \in Workers |-> NoComp]
  /\ resp = [w \in Workers |-> "pending"]
  /\ req = [w \in Workers |-> NoReq]
  /\ refundCalls = [s \in Sessions |-> 0]
  /\ outbox = [s \in Sessions |-> NoMail]
  /\ today = Today0
  /\ deliveries = 0
  /\ quota = [checkout |-> MaxDeliveries, other |-> MaxOtherEvents]
  /\ completed = [s \in Sessions |-> FALSE]
  /\ faulted = [s \in Sessions |-> FALSE]
  /\ firstOutcome = [s \in Sessions |-> NoResult]
  /\ sync = [w \in Workers |-> NoSync]
  /\ lastEv = [k \in Sessions \cup {EarlierApp} |-> <<>>]
  /\ hist = [k \in Sessions \cup {EarlierApp} |-> NoHist]
  /\ log = [s \in Sessions |-> "null"]
  /\ calc = NoCalc

Next ==
  \E w \in Workers :
    \/ handleStripeWebhook(w)
    \/ respond(w)
    \/ ppFindApplication(w)
    \/ ppFindUser(w)
    \/ ppCreateUser(w)
    \/ ppCreateProfile(w)
    \/ ppCreateBilling(w)
    \/ ppMarkProcessed(w)
    \/ ppFault(w)
    \/ hccSendEmails(w)
    \/ hccLookupFault(w)
    \/ handleFailedCheckout(w)
    \/ fcRefund(w)
    \/ fcMarkRefunded(w)
    \/ unhandledEvent(w)
    \/ syncFind(w)
    \/ syncWrite(w)
    \/ syncFault(w)

Spec == Init /\ [][Next]_vars

\* the webhook pipeline together with the polling endpoint
NextVerify ==
  \E w \in Workers :
    \/ handleStripeWebhook(w)
    \/ verifyPayment(w)
    \/ respond(w)
    \/ ppFindApplication(w)
    \/ ppFindUser(w)
    \/ ppCreateUser(w)
    \/ ppCreateProfile(w)
    \/ ppCreateBilling(w)
    \/ ppMarkProcessed(w)
    \/ ppFault(w)
    \/ hccSendEmails(w)
    \/ hccLookupFault(w)
    \/ handleFailedCheckout(w)
    \/ fcRefund(w)
    \/ fcMarkRefunded(w)
    \/ unhandledEvent(w)
    \/ syncFind(w)
    \/ syncWrite(w)
    \/ syncFault(w)

VerifySpec == Init /\ [][NextVerify]_vars

\* the pipeline from the initiation of a checkout on
NextCheckout ==
  \/ NextVerify
  \/ \E w \in Workers :
       \/ createCheckoutSession(w)
       \/ csCreateSession(w)
       \/ csAttachSession(w)

CheckoutSpec == Init /\ [][NextCheckout]_vars

\* ------------------------------------------- the billing state machine alone
\* every session was provisioned on CreatedOn, the first on either plan; the
\* Billing of the first has since been moved by the synchroniser to any of
\* the states it can leave a row in, the others are as provisioning left them
CreatedOn == [y |-> 2024, m |-> 12, d |-> 31]

CancelledOn == [y |-> 2025, m |-> 1, d |-> 10]

\* the clock of the billing state machine starts the day before the first
\* renewal of a monthly plan and runs for MaxTicks days
DayBeforeRenewal == [y |-> 2025, m |-> 1, d |-> 30]

LastDay == JsDate(DayBeforeRenewal.y, DayBeforeRenewal.m, DayBeforeRenewal.d + MaxTicks)

ProvisionedApplication(s, plan) ==
  [NewApplication(IF s = 1 THEN "e1" ELSE "e2", plan, s > 1) EXCEPT
     !.status = "completed", !.processed = TRUE, !.userId = s,
     !.tempPassword = "hash"]

ProvisionedBilling(s, plan, st, cancelled) ==
  [userId |-> s, applicationId |-> s, stripeSubscriptionId |-> s,
   billingType |-> plan, billingDay |-> CreatedOn.d,
   nextBillingDate |->
     calculateNextBillingDate(CreatedOn, CreatedOn.d, plan = "annual"),
   status |-> st, cancelledAt |-> IF cancelled THEN CancelledOn ELSE NoDate,
   setupFee |-> BillingAmounts(plan, s > 1).setupFee,
   customDesignFee |-> BillingAmounts(plan, s > 1).customDesignFee,
   recurringAmount |-> BillingAmounts(plan, s > 1).recurringAmount,
   initialAmount |-> BillingAmounts(plan, s > 1).initialAmount]

InitBilling ==
  /\ users = {[id |-> s, email |-> ProvisionedApplication(s, PlanOf(s)).email,
                createdBy |-> s] : s \in Sessions}
  /\ profiles = Sessions
  /\ tenants = 1
  /\ \E plan \in [Sessions -> {"monthly", "annual"}],
        st \in [Sessions -> {"active", "past_due", "cancelled"}],
        cancelled \in [Sessions -> BOOLEAN] :
       /\ \A s \in Sessions : st[s] = "cancelled" => cancelled[s]
       /\ \A s \in Sessions :
            s > 1 => (plan[s] = PlanOf(s) /\ st[s] = "active" /\ ~cancelled[s])
       /\ applications = [s \in Sessions |-> ProvisionedApplication(s, plan[s])]
       /\ billings = {ProvisionedBilling(s, plan[s], st[s], cancelled[s]) :
                        s \in Sessions}
  /\ drafts = <<>>
  /\ pc = [w \in Workers |-> "idle"]
  /\ sess = [w \in Workers |-> 1]
  /\ txn = [w \in Workers |-> EmptyTxn]
  /\ result = [w \in Workers |-> NoResult]
  /\ err = [w \in Workers |-> NoErr]
  /\ comp = [w \in Workers |-> NoComp]
  /\ resp = [w \in Workers |-> "pending"]
  /\ req = [w \in Workers |-> NoReq]
  /\ sync = [w \in Workers |-> NoSync]
  /\ refundCalls = [s \in Sessions |-> 0]
  /\ outbox = [s \in Sessions |-> NoMail]
  /\ today = DayBeforeRenewal
  /\ deliveries = 0
  /\ quota = [checkout |-> 0, other |-> MaxDeliveries]
  /\ completed = [s \in Sessions |-> FALSE]
  /\ faulted = [s \in Sessions |-> FALSE]
  /\ firstOutcome = [s \in Sessions |-> NoResult]
  /\ lastEv = [k \in Sessions \cup {EarlierApp} |-> <<>>]
  /\ hist = [k \in Sessions \cup {EarlierApp} |-> NoHist]
  /\ log = [s \in Sessions |-> "null"]
  /\ calc = NoCalc

\* a day passes
Tick ==
  /\ DateBefore(today, LastDay)
  /\ today' = JsDate(today.y, today.m, today.d + 1)
  /\ UNCHANGED <<dbVars, reqVars, refundCalls, outbox, obsVars, auxVars>>

NextBilling ==
  \/ \E w \in Workers :
       \/ handleStripeWebhook(w)
       \/ respond(w)
       \/ unhandledEvent(w)
       \/ syncFind(w)
       \/ syncWrite(w)
       \/ syncFault(w)
       \/ cancelSubscription(w)
       \/ reactivateSubscription(w)
       \/ userUpdate(w)
       \/ getSubscriptionStatus(w)
       \/ deleteAccount(w)
  \/ Tick

BillingSpec == InitBilling /\ [][NextBilling]_vars

\* ------------------------------------------------------ the pure functions
\* every date of CalendarYears years, the first of them a leap year
Calendar ==
  {dt \in [y : (Today0.y - 1)..(Today0.y - 2 + CalendarYears), m : 1..12, d : 1..31] :
     dt.d <= DaysInMonth(dt.y, dt.m)}

\* no checkout, no account, no request: only the clock is set
InitFunctions ==
  /\ applications = [a \in {} |-> EarlierApplication]
  /\ users = {}
  /\ profiles = {}
  /\ billings = {}
  /\ tenants = 0
  /\ drafts = <<>>
  /\ pc = [w \in Workers |-> "idle"]
  /\ sess = [w \in Workers |-> 1]
  /\ txn = [w \in Workers |-> EmptyTxn]
  /\ result = [w \in Workers |-> NoResult]
  /\ err = [w \in Workers |-> NoErr]
  /\ comp = [w \in Workers |-> NoComp]
  /\ resp = [w \in Workers |-> "pending"]
  /\ req = [w \in Workers |-> NoReq]
  /\ sync = [w \in Workers |-> NoSync]
  /\ refundCalls = [s \in Sessions |-> 0]
  /\ outbox = [s \in Sessions |-> NoMail]
  /\ today \in Calendar
  /\ deliveries = 0
  /\ quota = [checkout |-> 0, other |-> 0]
  /\ completed = [s \in Sessions |-> FALSE]
  /\ faulted = [s \in Sessions |-> FALSE]
  /\ firstOutcome = [s \in Sessions |-> NoResult]
  /\ lastEv = [k \in Sessions \cup {EarlierApp} |-> <<>>]
  /\ hist = [k \in Sessions \cup {EarlierApp} |-> NoHist]
  /\ log = [s \in Sessions |-> "null"]
  /\ calc = NoCalc

\* calculateNextBillingDate(billingDay, isAnnual) called today
callCalculateNextBillingDate ==
  /\ \E billingDay \in 1..31, isAnnual \in BOOLEAN :
       calc' = [NoCalc EXCEPT
                  !.fn = "calculateNextBillingDate", !.now = today,
                  !.billingDay = billingDay, !.isAnnual = isAnnual,
                  !.date = calculateNextBillingDate(today, billingDay, isAnnual)]
  /\ UNCHANGED <<dbVars, reqVars, extVars, obsVars, log, hist>>

\* the three places that price a checkout, for one plan and add-on flag
callPricing ==
  /\ \E paymentPlan \in {"monthly", "annual"}, customDesign \in BOOLEAN :
       calc' = [NoCalc EXCEPT
                  !.fn = "pricing", !.isAnnual = (paymentPlan = "annual"),
                  !.customDesign = customDesign,
                  !.amountTotal = AmountTotal(paymentPlan, customDesign),
                  !.billing = BillingAmounts(paymentPlan, customDesign),
                  !.pricing = calculatePricing(paymentPlan, customDesign)]
  /\ UNCHANGED <<dbVars, reqVars, extVars, obsVars, log, hist>>

NextFunctions ==
  \/ callCalculateNextBillingDate
  \/ callPricing

FunctionSpec == InitFunctions /\ [][NextFunctions]_vars

\* ------------------------------------------------------------------ claims
UsersFor(s) == {u \in users : u.email = applications[s].email}

ProfilesFor(s) == {p \in profiles : \E u \in UsersFor(s) : u.id = p}

BillingsFor(s) == {b \in billings : b.applicationId = s}

BillingOwnersFor(s) == {b.userId : b \in BillingsFor(s)}

\* nobody but the provisioner of session s ever registered the e-mail of s
OwnEmail(s) == \A u \in UsersFor(s) : u.createdBy = s

C1_OneTriple ==
  \A s \in Sessions :
    (HasApp(s) /\ completed[s] /\ ~faulted[s] /\ OwnEmail(s)) =>
      /\ Cardinality(UsersFor(s)) = 1
      /\ Cardinality(ProfilesFor(s)) = 1
      /\ Cardinality(BillingsFor(s)) = 1

C1_NoLaterRecord ==
  \A s \in Sessions :
    (HasApp(s) /\ applications[s].processed) =>
      /\ UsersFor(s)' = UsersFor(s)
      /\ ProfilesFor(s)' = ProfilesFor(s)
      /\ BillingOwnersFor(s)' = BillingOwnersFor(s)

\* C1: once a delivery of checkout_completed for a session has been
\* acknowledged (the e-mail registered by nobody else, no transaction of the
\* session aborted by an infrastructure fault), exactly one User, one Profile
\* and one Billing exist for its Application; and no step taken while the
\* Application is processed creates a User, Profile or Billing for it.
C1_Idempotent == [] C1_OneTriple /\ [][C1_NoLaterRecord]_vars

\* a duplicate delivery short-circuited on an account this session created
C1_Witness ==
  \E w \in Workers :
    /\ pc[w] = "ret" /\ result[w].alreadyProcessed
    /\ ~faulted[sess[w]] /\ OwnEmail(sess[w])
    /\ Cardinality(BillingsFor(sess[w])) = 1

C2_Step ==
  \A w \in Workers :
    (pc[w] \in TxPcs /\ txn[w].user # NoUser /\ pc'[w] = "hcc_catch") =>
      /\ \A u \in users' : u.id # txn[w].user
      /\ txn[w].user \notin profiles'
      /\ \A b \in billings' : b.userId # txn[w].user
      /\ ~applications'[sess[w]].processed
      /\ applications'[sess[w]].userId = NoUser

\* C2: a step in which the provisioning transaction fails after its User row
\* was created leaves no User, Profile or Billing of that attempt, and the
\* Application unprocessed with no linked User.
C2_Rollback == [][C2_Step]_vars

\* the transaction failed at Billing creation or later, after the User row
C2_Witness ==
  \E w \in Workers : pc[w] = "hcc_catch" /\ err[w].afterUser # NoUser

Committed(s) ==
  /\ HasApp(s)
  /\ applications[s].processed
  /\ applications[s].userId # NoUser
  /\ BillingsFor(s) # {}

\* C3: no checkout session has both a refund requested and a committed
\* account (Application processed with a linked User and a Billing).
C3_RefundOnlyWithoutAccount ==
  \A s \in Sessions : ~(refundCalls[s] > 0 /\ Committed(s))

\* C4: two compensation runs for the same session that overlap never both
\* call the refund API.
C4_OneRefundCall ==
  \A v, w \in Workers :
    (v # w /\ sess[v] = sess[w]) => ~(pc[v] = "fc_update" /\ pc[w] = "fc_update")

C5_Step ==
  \A w \in Workers :
    (/\ pc[w] = "pp_user"
     /\ UsersFor(sess[w]) # {}
     /\ pc'[w] # "pp_user"
     /\ err'[w].msg # "fault") =>
      /\ users' = users /\ profiles' = profiles /\ billings' = billings
      /\ applications'[sess[w]].processed
      /\ applications'[sess[w]].status = "completed"
      /\ \E u \in UsersFor(sess[w]) : applications'[sess[w]].userId = u.id
      /\ result'[w].tempPassword = "null"

\* C5: when a User with the Application's e-mail exists, the provisioning
\* step that finds it (unless hit by an infrastructure fault) creates no
\* User, Profile or Billing, links the Application to that User with
\* processed = true and status = completed, and returns no password.
C5_LinksExistingUser == [][C5_Step]_vars

\* C6 as claimed: every successful outcome of a session equals the first one
C6_IdenticalOutcome ==
  \A w \in Workers :
    (pc[w] = "ret" /\ result[w].success) => result[w] = firstOutcome[sess[w]]

\* C6 amended: a delivery that finds the Application already processed gets
\* success with alreadyProcessed = true, the userId of the first successful
\* outcome of the session, and neither credentials nor e-mail.
C6_SameUserNoCredentials ==
  \A w \in Workers :
    (pc[w] = "ret" /\ result[w].alreadyProcessed) =>
      /\ result[w].success
      /\ result[w].userId = firstOutcome[sess[w]].userId
      /\ result[w].userId # NoUser
      /\ result[w].tempPassword = "null"
      /\ result[w].email = "undefined"

\* a duplicate delivery returned after the delivery that created the account
C6_Witness ==
  \E w \in Workers :
    /\ pc[w] = "ret" /\ result[w].alreadyProcessed
    /\ firstOutcome[sess[w]].tempPassword = "plain"

\* C7: a run of the Compensation Handler for a session not already refunded
\* ends with a refund issued or with an operator alert sent, the alert
\* flagged MANUAL REFUND REQUIRED when the refund call failed.
C7_NeverSilent ==
  \A w \in Workers :
    (pc[w] = "ret" /\ comp[w].ran /\ ~comp[w].alreadyRefunded) =>
      \/ comp[w].refundIssued
      \/ /\ comp[w].alertSent
         /\ comp[w].refundCalled => comp[w].alert = "MANUAL REFUND REQUIRED"

\* C8: a request whose signature verified is answered with the success
\* acknowledgement, whatever failed inside the routed handler.
C8_AlwaysAcknowledged ==
  \A w \in Workers : (pc[w] = "ret" /\ req[w].sigOK) => resp[w] = "ack"

\* provisioning failed, the refund call failed and the alert was not delivered
C8_Witness ==
  \E w \in Workers :
    /\ pc[w] = "ret" /\ req[w].sigOK /\ resp[w] = "ack"
    /\ comp[w].refundCalled /\ ~comp[w].refundIssued /\ ~comp[w].alertSent

C9_Rejected ==
  \A w \in Workers : ~req[w].sigOK => (pc[w] = "ret" /\ resp[w] = "error")

C9_Step ==
  \A w \in Workers :
    (pc[w] = "idle" /\ pc'[w] # "idle" /\ ~req'[w].sigOK) =>
      UNCHANGED <<dbVars, refundCalls, outbox>>

\* C9: a request whose signature does not verify is answered with an error
\* and never enters a handler; receiving it changes no Application, User,
\* Profile or Billing, requests no refund and sends no e-mail.
C9_BadSignature == [] C9_Rejected /\ [][C9_Step]_vars

\* a request with a bad signature has been rejected
C9_Witness ==
  \E w \in Workers : pc[w] = "ret" /\ ~req[w].sigOK /\ resp[w] = "error"

\* C10: for one subscription, when invoice_payment_failed and then
\* invoice_paid were the last two events applied to its Billing the status
\* is active, and in the reverse order it is past_due, whatever it was before.
C10_LastInvoiceEventWins ==
  \A b \in billings :
    /\ lastEv[b.applicationId] =
         <<"invoice.payment_failed", "invoice.payment_succeeded">>
       => b.status = "active"
    /\ lastEv[b.applicationId] =
         <<"invoice.payment_succeeded", "invoice.payment_failed">>
       => b.status = "past_due"

\* a Billing cancelled before the two events is active after failed, paid
C10_Witness ==
  \E b \in billings :
    /\ lastEv[b.applicationId] =
         <<"invoice.payment_failed", "invoice.payment_succeeded">>
    /\ b.status = "active"
    /\ b.cancelledAt = CancelledOn

\* C11: in every state reached by interleaving the four synchroniser events
\* with user cancel and reactivate requests, a Billing whose status is
\* cancelled has a cancelledAt.
C11_CancelledHasDate ==
  \A b \in billings : b.status = "cancelled" => b.cancelledAt # NoDate

\* a row that a user request and a synchroniser event both wrote is cancelled
C11_Witness ==
  \E b \in billings :
    /\ b.status = "cancelled"
    /\ Len(lastEv[b.applicationId]) = 2
    /\ \E i, j \in 1..2 :
         /\ lastEv[b.applicationId][i] \in {"user.cancel", "user.reactivate"}
         /\ lastEv[b.applicationId][j] \in SyncTypes

\* C12: every Application with processed = true has a linked User, or has
\* status refunded or failed.
C12_ProcessedHasUser ==
  \A a \in DOMAIN applications :
    applications[a].processed =>
      \/ applications[a].userId # NoUser
      \/ applications[a].status \in {"refunded", "failed"}

\* this step is the billing.update of handler w
Writes(w) ==
  /\ pc[w] \in {"sub_write", "user_write"}
  /\ pc'[w] = "ret"
  /\ resp'[w] = "ack"
  /\ err'[w].msg = "none"

\* handler w applies to billing k the event that was the last one applied to
\* it, with the same payload, and has read the row as that application left it
SameEventAgain(w, k) ==
  /\ pc[w] = "sub_write"
  /\ Writes(w)
  /\ k = sync[w].key
  /\ hist[k].op.type = req[w].type
  /\ hist[k].op.flag = sync[w].cancelAtPeriodEnd
  /\ hist[k].op.st = sync[w].subStatus
  /\ sync[w].seen = RowOf(k)

C13_Step ==
  \A w \in Workers, k \in DOMAIN lastEv :
    SameEventAgain(w, k) =>
      /\ RowOf(k)'.status = RowOf(k).status
      /\ RowOf(k)'.cancelledAt = RowOf(k).cancelledAt
      /\ RowOf(k)'.nextBillingDate = RowOf(k).nextBillingDate

\* C13: applying to a Billing the same synchroniser event a second time right
\* after the first leaves status, cancelledAt and nextBillingDate as the first
\* application left them.
C13_Idempotent == [][C13_Step]_vars

\* the answer of getSubscriptionStatus against the row and the time it read
C14_Answer ==
  \A w \in Workers :
    (pc[w] = "ret" /\ req[w].type = "user.status" /\ sync[w].seen # NoBilling) =>
      LET b == sync[w].seen
          T == b.nextBillingDate
      IN  /\ sync[w].status = b.status
          /\ sync[w].hasAccess = "true" <=>
                \/ b.status = "active"
                \/ b.status = "cancelled" /\ T # NoDate /\ DateBefore(sync[w].now, T)

\* the passage of time alone changes no Billing
C14_TimeStep == today' # today => billings' = billings

\* C14: getSubscriptionStatus reports hasAccess = true exactly when the status
\* is active, or the status is cancelled and nextBillingDate is in the future:
\* a cancelled subscription has access before its nextBillingDate T and none
\* after T, and its status stays cancelled as time passes.
C14_HasAccess == [] C14_Answer /\ [][C14_TimeStep]_vars

\* a subscription the user cancelled while it had access is asked about when
\* its nextBillingDate has passed: still cancelled, no access
C14_Witness ==
  \E w \in Workers :
    /\ pc[w] = "ret" /\ req[w].type = "user.status"
    /\ sync[w].seen.status = "cancelled"
    /\ hist[sync[w].key].op.type = "user.cancel"
    /\ DateBefore(sync[w].seen.cancelledAt, sync[w].seen.nextBillingDate)
    /\ ~DateBefore(sync[w].now, sync[w].seen.nextBillingDate)
    /\ sync[w].hasAccess = "false"

Min(a, b) == IF a < b THEN a ELSE b

\* the month one period after date now: the next month, or the same month of
\* the next year
TargetMonth(now, isAnnual) ==
  IF isAnnual THEN [y |-> now.y + 1, m |-> now.m]
  ELSE IF now.m = 12 THEN [y |-> now.y + 1, m |-> 1]
  ELSE [y |-> now.y, m |-> now.m + 1]

\* C15: for every billing day d in 1..31 and every current date, the computed
\* nextBillingDate lies in the month one period ahead, on day
\* min(d, number of days of that month).
C15_ClampedToTargetMonth ==
  calc.fn = "calculateNextBillingDate" =>
    LET t == TargetMonth(calc.now, calc.isAnnual)
    IN  calc.date = [y |-> t.y, m |-> t.m,
                     d |-> Min(calc.billingDay, DaysInMonth(t.y, t.m))]

\* C16: for every plan and add-on flag, the total of the checkout line items,
\* the initialAmount stored on the Billing and the initialAmount of
\* calculatePricing are the same number of pence, and each initialAmount is
\* setupFee + recurringAmount + customDesignFee.
C16_SamePrice ==
  calc.fn = "pricing" =>
    /\ calc.amountTotal = MinorUnits(calc.billing.initialAmount)
    /\ calc.amountTotal = MinorUnits(calc.pricing.initialAmount)
    /\ \A a \in {calc.billing, calc.pricing} :
         a.initialAmount = a.setupFee + a.recurringAmount + a.customDesignFee
    /\ calc.amountTotal =
         MinorUnits(calc.pricing.setupFee) + MinorUnits(calc.pricing.recurringAmount)
           + MinorUnits(calc.pricing.customDesignFee)

\* the annual plan with the custom design add-on has been priced
C16_Witness ==
  calc.fn = "pricing" /\ calc.isAnnual /\ calc.customDesign /\ calc.amountTotal = 39888

ProvisioningRequests == {"checkout.session.completed", "verify.payment"}

\* a request whose provisioning failed has run the Compensation Handler
C17_Failure ==
  \A w \in Workers :
    (pc[w] = "ret" /\ req[w].type \in ProvisioningRequests /\ err[w].msg # "none") =>
      comp[w].ran

\* a request that created the account ends in the step that sends the receipt
\* and the welcome e-mail, or in a step of the Compensation Handler
C17_SuccessStep ==
  \A w \in Workers :
    (pc[w] # "ret" /\ pc'[w] = "ret" /\ result'[w].tempPassword = "plain") =>
      pc[w] \in {"hcc_emails", "hcc_catch", "fc_refund", "fc_update"}

\* C17: a session handled by the polling path gets what the webhook path
\* gives it: when provisioning fails the Compensation Handler runs (refund or
\* operator alert), when it creates the account the receipt and the welcome
\* e-mail are sent.
C17_SameAsWebhook == [] C17_Failure /\ [][C17_SuccessStep]_vars

\* the row that running operation op alone, read and write together, makes
\* of row b
OpApply(op, b) ==
  IF op.type \in SyncTypes
  THEN BillingUpdate(b, SyncRead(op.type, b, op.flag, op.st, op.now))
  ELSE IF op.type = "user.cancel"
  THEN (IF b.status = "cancelled" THEN b ELSE BillingUpdate(b, CancelData(op.now)))
  ELSE IF op.type = "user.reactivate"
  THEN (IF b.status # "cancelled" THEN b ELSE BillingUpdate(b, ReactivateData))
  ELSE b

\* the operation of handler w as it writes
WriteOp(w) ==
  IF pc[w] = "sub_write" THEN OpOf(w)
  ELSE [NoOp EXCEPT !.type = req[w].type, !.now = today]

\* handler w writes a row that exactly one other operation wrote since w read
\* it, one of the two being a synchroniser event and the other a user request
Overlapped(w) ==
  LET k == sync[w].key
  IN  /\ Writes(w)
      /\ RowOf(k) # NoBilling
      /\ sync[w].seen # RowOf(k)
      /\ hist[k].before = sync[w].seen
      /\ (WriteOp(w).type \in SyncTypes) # (hist[k].op.type \in SyncTypes)

C18_Step ==
  \A w \in Workers :
    Overlapped(w) =>
      LET k == sync[w].key
      IN  RowOf(k)' \in {OpApply(WriteOp(w), RowOf(k)),
                         OpApply(hist[k].op, OpApply(WriteOp(w), sync[w].seen))}

\* C18: when a synchroniser event and a user cancel or reactivate request
\* overlap on one Billing row, the row they leave is the row that running the
\* two one after the other, in one of the two orders, leaves.
C18_NoLostUpdate == [][C18_Step]_vars

\* C19: the plain-text temporary password is written to no database row and
\* to no log entry, and the outcomes of a duplicate delivery and of the
\* e-mail-collision path carry no password.
C19_NeverPersisted ==
  /\ \A s \in Sessions :
       /\ log[s] # "plain"
       /\ HasApp(s) => applications[s].tempPassword # "plain"
  /\ \A w \in Workers :
       (result[w].alreadyProcessed \/ result[w].userExists) =>
         result[w].tempPassword = "null"

\* positions of the provisioner from tx.user.create on
CreationPcs == {"pp_create", "pp_profile", "pp_billing", "pp_mark"}

\* C20: of two concurrent deliveries of checkout_completed for the same
\* session, at most one passes the processed check and reaches the creation
\* of the User.
C20_OneReachesCreation ==
  \A v, w \in Workers :
    (v # w /\ sess[v] = sess[w]) => ~(pc[v] \in CreationPcs /\ pc[w] \in CreationPcs)

C21_Step ==
  \A w \in Workers :
    (/\ pc[w] = "fc_refund"
     /\ refundCalls'[sess[w]] > refundCalls[sess[w]]
     /\ err[w].alone
     /\ err[w].refundsBefore = refundCalls[sess[w]]) =>
      refundCalls[sess[w]] = 0

\* C21: a run of the Compensation Handler that began when every earlier run
\* for its checkout session had ended, and during which no other run has
\* requested a refund, requests a refund only if none was requested for the
\* session before (whether or not an Application is found for the session).
C21_AtMostOneRefund == [][C21_Step]_vars

C22_Step ==
  \A a \in DOMAIN applications :
    applications[a].status # "pending" =>
      /\ applications'[a].status = applications[a].status
      /\ applications'[a].processed = applications[a].processed
      /\ applications'[a].userId = applications[a].userId

\* C22: once the status of an Application has left pending, no step of a
\* webhook delivery, of the polling verification or of the Compensation
\* Handler changes its status, its processed flag or its userId.
C22_TerminalIsFinal == [][C22_Step]_vars

C23_Step ==
  \A w \in Workers :
    (/\ pc[w] = "sub_write" /\ Writes(w)
     /\ req[w].type = "customer.subscription.updated"
     /\ sync[w].cancelAtPeriodEnd
     /\ RowOf(sync[w].key) # NoBilling) =>
      LET k == sync[w].key
          billing == sync[w].seen
      IN  /\ RowOf(k)'.status = "cancelled"
          /\ RowOf(k)'.cancelledAt =
               IF billing.cancelledAt # NoDate THEN billing.cancelledAt ELSE sync[w].now
          /\ RowOf(k)'.nextBillingDate = RowOf(k).nextBillingDate

\* C23: the update of subscription_updated with the cancel-at-period-end flag
\* set leaves the Billing with status cancelled, with the cancelledAt the
\* handler found on it, or the current time if it found none, and with its
\* nextBillingDate unchanged, whatever the subscription status of the event.
C23_CancelAtPeriodEnd == [][C23_Step]_vars

\* the flag came with subscription status past_due on a Billing cancelled
\* earlier: the row is cancelled and keeps the earlier cancelledAt
C23_Witness ==
  \E k \in Sessions :
    /\ hist[k].op.type = "customer.subscription.updated"
    /\ hist[k].op.flag /\ hist[k].op.st = "past_due"
    /\ hist[k].before.cancelledAt = CancelledOn
    /\ hist[k].before.status = "past_due"
    /\ hist[k].op.now # CancelledOn
    /\ RowOf(k).status = "cancelled"
    /\ RowOf(k).cancelledAt = CancelledOn
    /\ RowOf(k).nextBillingDate = hist[k].before.nextBillingDate

C24_Step ==
  \A w \in Workers :
    (/\ pc[w] = "sub_write" /\ Writes(w)
     /\ req[w].type = "invoice.payment_succeeded"
     /\ RowOf(sync[w].key) # NoBilling) =>
      LET k == sync[w].key
          billing == sync[w].seen
          t == TargetMonth(sync[w].now, billing.billingType = "annual")
      IN  /\ RowOf(k)'.status = "active"
          /\ RowOf(k)'.nextBillingDate =
               [y |-> t.y, m |-> t.m,
                d |-> Min(billing.billingDay, DaysInMonth(t.y, t.m))]

\* C24: the update of invoice_paid leaves the Billing active with its
\* nextBillingDate on the stored billingDay (or the last day of the month, if
\* the month is shorter) one period after the current date: of the next month
\* for a monthly Billing, of the same month of the next year for an annual one.
C24_OnePeriodAhead == [][C24_Step]_vars

\* handler w received an event the switch has no case for
UnknownKind(w) == req[w].sigOK /\ Route(req[w].type) = "unhandled"

\* this step is the return of a subscription or invoice handler whose
\* findUnique returned no Billing
LookupMiss(w) == pc[w] = "sub_find" /\ pc'[w] = "ret" /\ err'[w].msg = "none"

C25_Answer ==
  \A w \in Workers : (pc[w] = "ret" /\ UnknownKind(w)) => resp[w] = "ack"

C25_Step ==
  \A w \in Workers :
    /\ (pc[w] = "idle" /\ pc'[w] \in {"unhandled", "sub_find"}) => UNCHANGED dbVars
    /\ (pc[w] = "unhandled" /\ pc'[w] # "unhandled") => UNCHANGED dbVars
    /\ LookupMiss(w) => (UNCHANGED dbVars /\ resp'[w] = "ack")

\* C25: no step of the handling of an authenticated event of an unknown kind,
\* or of a subscription or invoice event whose subscription matches no
\* Billing, changes an Application, User, Profile or Billing, and the event
\* is acknowledged with success.
C25_IgnoredAndAcknowledged == [] C25_Answer /\ [][C25_Step]_vars

\* a subscription or invoice event that matched none of the Billing rows
\* there are has been acknowledged
C25_Witness ==
  \E w \in Workers :
    /\ pc[w] = "ret" /\ resp[w] = "ack"
    /\ req[w].sigOK /\ req[w].type \in SyncTypes
    /\ sync[w] = NoSync /\ err[w].msg = "none"
    /\ billings # {}

\* the subscription_updated event that the Payment Processor sends for the
\* user request of handler w: the cancel flag set for a cancel, status active
\* and the flag clear for a reactivate
EventOfRequest(w) ==
  [type |-> "customer.subscription.updated", flag |-> req[w].type = "user.cancel",
   st |-> "active", now |-> today]

C26_Step ==
  \A w \in Workers :
    (/\ pc[w] = "user_write" /\ Writes(w)
     /\ RowOf(sync[w].key) # NoBilling
     /\ sync[w].seen = RowOf(sync[w].key)) =>
      LET k == sync[w].key
          viaEvent == OpApply(EventOfRequest(w), RowOf(k))
      IN  /\ RowOf(k)'.status = viaEvent.status
          /\ RowOf(k)'.cancelledAt = viaEvent.cancelledAt
          /\ RowOf(k)'.nextBillingDate = viaEvent.nextBillingDate

\* C26: from every Billing state in which it is accepted, cancelSubscription
\* leaves the status, cancelledAt and nextBillingDate that subscription_updated
\* with the cancel flag set leaves (an earlier cancelledAt is kept), and
\* reactivateSubscription leaves what subscription_updated with status active
\* and the flag clear leaves.
C26_SameStateMachine == [][C26_Step]_vars

\* this step of handler w is the sending of the two e-mails, and the receipt
\* or the welcome e-mail was not delivered
EmailFailed(w) ==
  /\ pc[w] = "hcc_emails" /\ pc'[w] # "hcc_emails"
  /\ outbox' # outbox \/ log' # log
  /\ log'[sess[w]] # log[sess[w]] \/ ~outbox'[sess[w]].receipt

C27_Step ==
  \A w \in Workers :
    EmailFailed(w) =>
      /\ UNCHANGED <<dbVars, refundCalls>>
      /\ pc'[w] = "ret" /\ resp'[w] = "ack"
      /\ ~comp'[w].ran

\* C27: the step in which the receipt or the credentials e-mail fails after
\* provisioning has committed changes no User, Profile, Billing or
\* Application and ends the delivery, acknowledged, without a run of the
\* Compensation Handler and without a refund request.
C27_EmailFailureKeepsAccount == [][C27_Step]_vars

\* both e-mails failed: the account is there, the Application is processed
\* and completed, and no refund was requested
C27_Witness ==
  \E w \in Workers :
    /\ pc[w] = "ret" /\ result[w].tempPassword = "plain" /\ err[w].msg = "none"
    /\ outbox[sess[w]].welcome = 0 /\ ~outbox[sess[w]].receipt
    /\ Committed(sess[w])
    /\ applications[sess[w]].status = "completed"
    /\ UsersFor(sess[w]) # {} /\ ProfilesFor(sess[w]) # {}
    /\ refundCalls[sess[w]] = 0

\* an applications row that no Stripe session was attached to is as it was
\* created
C28_Pending ==
  \A i \in DOMAIN drafts :
    drafts[i].session = 0 =>
      /\ drafts[i].row.status = "pending"
      /\ ~drafts[i].row.processed
      /\ drafts[i].row.userId = NoUser

C28_Step ==
  \A w \in Workers :
    (pc[w] = "cs_stripe" /\ pc'[w] = "ret") =>
      /\ resp'[w] = "error"
      /\ drafts'[sync[w].key].session = 0
      /\ UNCHANGED <<applications, users, profiles, billings, tenants,
                     refundCalls, outbox>>

\* C28: when the Payment Processor call of createCheckoutSession fails, the
\* caller gets the error, the Application the call created stays pending and
\* unprocessed, and the step creates no User, Profile or Billing, requests no
\* refund and sends no alert.
C28_AbandonedStaysPending == [] C28_Pending /\ [][C28_Step]_vars

\* a call has failed at the Payment Processor and left its Application
C28_Witness ==
  \E w \in Workers :
    /\ pc[w] = "ret" /\ req[w].type = "checkout.create" /\ resp[w] = "error"
    /\ drafts[sync[w].key].session = 0
    /\ ~drafts[sync[w].key].row.processed
    /\ drafts[sync[w].key].row.status = "pending"

C29_Step ==
  \A w \in Workers :
    (/\ pc[w] = "sub_write" /\ Writes(w)
     /\ req[w].type = "customer.subscription.updated"
     /\ ~sync[w].cancelAtPeriodEnd
     /\ sync[w].subStatus # "active"
     /\ RowOf(sync[w].key) # NoBilling) =>
      RowOf(sync[w].key)'.status # "active"

\* C29: the update of subscription_updated with the cancel flag clear and a
\* subscription status other than active leaves the Billing with a status
\* that is not active.
C29_ActiveOnlyWhenActive == [][C29_Step]_vars

C30_AtMostOnce ==
  /\ \A s \in Sessions : outbox[s].welcome <= 1
  /\ \A w \in Workers :
       (result[w].alreadyProcessed \/ result[w].userExists) => pc[w] # "hcc_emails"

C30_Step ==
  \A s \in Sessions :
    outbox'[s].welcome > outbox[s].welcome =>
      \E w \in Workers :
        /\ sess[w] = s /\ pc[w] = "hcc_emails" /\ pc'[w] = "ret"
        /\ ~result[w].alreadyProcessed /\ ~result[w].userExists
        /\ result[w].tempPassword = "plain"
        /\ firstOutcome[s] = result[w]

\* C30: over the deliveries of checkout_completed for one checkout session
\* the welcome e-mail is sent at most once, by the delivery whose provisioning
\* call created the User; a delivery that finds the Application processed or
\* the e-mail registered never reaches the sending of e-mails.
C30_OneWelcome == [] C30_AtMostOnce /\ [][C30_Step]_vars

\* after the delivery that created the User and sent the welcome e-mail, a
\* second delivery found the Application processed and sent none
C30_Witness ==
  \E w \in Workers :
    /\ pc[w] = "ret" /\ result[w].alreadyProcessed
    /\ outbox[sess[w]].welcome = 1
    /\ firstOutcome[sess[w]].tempPassword = "plain"
    /\ \A v \in Workers \ {w} : pc[v] = "idle"

====
